---------------------------- MODULE Spec2Model ----------------------------
(***************************************************************************)
(* pywebpack/manifests.py: the manifest data model (Manifest,              *)
(* ManifestEntry), the three format factories and ManifestLoader.          *)
(*                                                                         *)
(* Four specifications share the module:                                   *)
(*   Spec          ManifestLoader.load probing the factories               *)
(*   SpecCreate    each factory's create applied to one parsed document    *)
(*   SpecManifest  Manifest.add / __getitem__ / __getattr__                *)
(*   SpecRender    ManifestEntry.render                                    *)
(***************************************************************************)
EXTENDS Naturals, Sequences, FiniteSets

VARIABLES
    data,       \* the parsed JSON document (json.load's result)
    tried,      \* ManifestLoader.load: the factories whose create was invoked, with outcomes
    loaded,     \* ManifestLoader.load: its outcome (returned Manifest or raised error)
    results,    \* SpecCreate: factory -> outcome of its create(data), once called
    entries,    \* Manifest._entries, in insertion order
    history,    \* every entry handed to Manifest.add so far, in call order
    lastOp,     \* the last Manifest operation and what it returned or raised
    epaths,     \* ManifestEntry._paths
    rendered    \* the outcome of the last ManifestEntry.render()

vars == <<data, tried, loaded, results, entries, history, lastOp, epaths, rendered>>

(***************************************************************************)
(* Bounds                                                                  *)
(***************************************************************************)
MaxKeys == 3        \* keys of the top-level JSON object
MaxItems == 2       \* list items inside one nested mapping (all names together)
MaxAdds == 3        \* Manifest.add calls on one Manifest
MaxPaths == 2       \* paths of a rendered ManifestEntry

(***************************************************************************)
(* Parsed JSON.  Every value is a record of one layout, so that values of  *)
(* different JSON types can be compared:                                   *)
(*   t = "str"  a string s          t = "num"  a number (not a string)     *)
(*   t = "null" None                t = "obj"  a mapping m, in key order   *)
(* A nested mapping m is a sequence of [name, items]; an item is a path    *)
(* string (k = "str"), a descriptor object with a publicPath (k = "desc")  *)
(* or a descriptor object without one (k = "nopp").                        *)
(***************************************************************************)
Str(s) == [t |-> "str", s |-> s, m |-> <<>>]
Num == [t |-> "num", s |-> "", m |-> <<>>]
Null == [t |-> "null", s |-> "", m |-> <<>>]
Obj(m) == [t |-> "obj", s |-> "", m |-> m]

PathStr(p) == [k |-> "str", p |-> p]
Desc(p) == [k |-> "desc", p |-> p]
NoPublicPath == [k |-> "nopp", p |-> ""]

Range(s) == {s[i] : i \in 1..Len(s)}

SeqsUpTo(S, n) == UNION {[1..k -> S] : k \in 0..n}

\* dict lookups on the top-level object
HasKey(d, key) == \E i \in 1..Len(d.pairs) : d.pairs[i].key = key
Get(d, key) == d.pairs[CHOOSE i \in 1..Len(d.pairs) : d.pairs[i].key = key].val

(***************************************************************************)
(* Outcomes of an operation: a returned Manifest or a raised exception.    *)
(***************************************************************************)
NoOutcome == [kind |-> "none", manifest |-> <<>>, arg |-> ""]
Returned(m) == [kind |-> "Manifest", manifest |-> m, arg |-> ""]
Raised(e, a) == [kind |-> e, manifest |-> <<>>, arg |-> a]

(***************************************************************************)
(* Manifest and ManifestEntry                                              *)
(***************************************************************************)
create_entry(name, paths) == [name |-> name, paths |-> paths]

create_manifest == <<>>

HasEntry(es, name) == \E i \in 1..Len(es) : es[i].name = name

EntryOf(es, name) == es[CHOOSE i \in 1..Len(es) : es[i].name = name]

\* Manifest.add on the dict es: [ok, es]; ok = FALSE is the raised KeyError.
AddOverwrites(es, entry) ==
    IF HasEntry(es, entry.name)
    THEN [ok |-> TRUE,
          es |-> [i \in 1..Len(es) |->
                    IF es[i].name = entry.name THEN entry ELSE es[i]]]
    ELSE [ok |-> TRUE, es |-> Append(es, entry)]

add(es, entry) ==
    IF HasEntry(es, entry.name)
    THEN [ok |-> FALSE, es |-> es]
    ELSE [ok |-> TRUE, es |-> Append(es, entry)]

(***************************************************************************)
(* Factories.  Each create returns an outcome.                             *)
(***************************************************************************)
\* isinstance(path, _string_types)
IsNotNone(v) == v.t # "null"

IsString(v) == v.t = "str"

\* the loop of WebpackManifestFactory.create over data.items() from pair i
RECURSIVE FlatLoop(_, _, _)
FlatLoop(pairs, i, manifest) ==
    IF i > Len(pairs) THEN Returned(manifest)
    ELSE IF ~IsString(pairs[i].val)
         THEN Raised("InvalidManifestError", "webpack-manifest-plugin")
         ELSE LET r == add(manifest,
                           create_entry(pairs[i].key, <<PathStr(pairs[i].val.s)>>))
              IN  IF r.ok THEN FlatLoop(pairs, i + 1, r.es)
                  ELSE Raised("KeyError", pairs[i].key)

FlatChecksFirstOnly(d) ==
    IF d.top # "obj" THEN Raised("AttributeError", "items")
    ELSE IF Len(d.pairs) > 0 /\ ~IsString(d.pairs[1].val)
         THEN Raised("InvalidManifestError", "webpack-manifest-plugin")
         ELSE Returned([i \in 1..Len(d.pairs) |->
                  create_entry(d.pairs[i].key, <<PathStr(d.pairs[i].val.s)>>)])

WebpackManifestFactoryCreate(d) ==
    IF d.top # "obj" THEN Raised("AttributeError", "items")
    ELSE FlatLoop(d.pairs, 1, create_manifest)

\* the loop of WebpackYamFactory.create over files.items() from entry i
RECURSIVE YamLoop(_, _, _)
YamLoop(files, i, manifest) ==
    IF i > Len(files) THEN Returned(manifest)
    ELSE LET r == add(manifest, create_entry(files[i].name, files[i].items))
         IN  IF r.ok THEN YamLoop(files, i + 1, r.es)
             ELSE Raised("KeyError", files[i].name)

\* "Is manifest finished?" of WebpackYamFactory.create
YamUnfinishedIfEmpty(files, status) ==
    files.t = "null" \/ (files.t = "obj" /\ files.m = <<>>) \/ status # Str("built")

YamUnfinished(files, status) == files.t = "null" \/ status # Str("built")

WebpackYamFactoryCreate(d) ==
    IF d.top # "obj" THEN Raised("TypeError", "status")
    ELSE IF ~HasKey(d, "status") \/ ~HasKey(d, "files")
         THEN Raised("InvalidManifestError", "webpack-yam-plugin")
         ELSE LET status == Get(d, "status")
                  files == Get(d, "files")
              IN  IF YamUnfinished(files, status)
                  THEN Raised("UnfinishedManifestError", "data")
                  ELSE IF files.t # "obj" THEN Raised("AttributeError", "items")
                       ELSE YamLoop(files.m, 1, create_manifest)

RECURSIVE PublicPathsReversed(_, _, _)
PublicPathsReversed(items, i, acc) ==
    IF i > Len(items) THEN [err |-> "", paths |-> acc]
    ELSE IF items[i].k = "str" THEN [err |-> "TypeError", paths |-> <<>>]
         ELSE IF items[i].k = "nopp" THEN [err |-> "KeyError", paths |-> <<>>]
              ELSE PublicPathsReversed(items, i + 1, <<PathStr(items[i].p)>> \o acc)

\* [x['publicPath'] for x in paths]: [err, paths]
RECURSIVE PublicPaths(_, _, _)
PublicPaths(items, i, acc) ==
    IF i > Len(items) THEN [err |-> "", paths |-> acc]
    ELSE IF items[i].k = "str" THEN [err |-> "TypeError", paths |-> <<>>]
         ELSE IF items[i].k = "nopp" THEN [err |-> "KeyError", paths |-> <<>>]
              ELSE PublicPaths(items, i + 1, Append(acc, PathStr(items[i].p)))

\* the loop of WebpackBundleTrackerFactory.create over data['chunks'].items()
RECURSIVE BundleLoop(_, _, _)
BundleLoop(chunks, i, manifest) ==
    IF i > Len(chunks) THEN Returned(manifest)
    ELSE LET pp == PublicPaths(chunks[i].items, 1, <<>>)
         IN  IF pp.err # "" THEN Raised(pp.err, "publicPath")
             ELSE LET r == add(manifest, create_entry(chunks[i].name, pp.paths))
                  IN  IF r.ok THEN BundleLoop(chunks, i + 1, r.es)
                      ELSE Raised("KeyError", chunks[i].name)

BundleUnfinishedFirst(d) ==
    IF d.top # "obj" THEN Raised("TypeError", "status")
    ELSE IF ~HasKey(d, "status")
         THEN Raised("InvalidManifestError", "webpack-bundle-tracker")
         ELSE IF Get(d, "status") # Str("done")
              THEN Raised("UnfinishedManifestError", "data")
              ELSE IF ~HasKey(d, "chunks")
                   THEN Raised("InvalidManifestError", "webpack-bundle-tracker")
                   ELSE IF Get(d, "chunks").t # "obj"
                        THEN Raised("AttributeError", "items")
                        ELSE BundleLoop(Get(d, "chunks").m, 1, create_manifest)

WebpackBundleTrackerFactoryCreate(d) ==
    IF d.top # "obj" THEN Raised("TypeError", "status")
    ELSE IF ~HasKey(d, "status")
         THEN Raised("InvalidManifestError", "webpack-bundle-tracker")
         ELSE IF ~HasKey(d, "chunks")
              THEN Raised("InvalidManifestError", "webpack-bundle-tracker")
              ELSE IF Get(d, "status") # Str("done")
                   THEN Raised("UnfinishedManifestError", "data")
                   ELSE IF Get(d, "chunks").t # "obj"
                        THEN Raised("AttributeError", "items")
                        ELSE BundleLoop(Get(d, "chunks").m, 1, create_manifest)

\* t.create(data) for a factory class t
Create(t, d) ==
    CASE t = "WebpackBundleTrackerFactory" -> WebpackBundleTrackerFactoryCreate(d)
      [] t = "WebpackYamFactory" -> WebpackYamFactoryCreate(d)
      [] t = "WebpackManifestFactory" -> WebpackManifestFactoryCreate(d)

(***************************************************************************)
(* ManifestLoader                                                          *)
(***************************************************************************)
types ==
    <<"WebpackBundleTrackerFactory", "WebpackYamFactory", "WebpackManifestFactory">>

\* the except clause of the probing loop
CaughtAnyManifestError(kind) ==
    kind \in {"InvalidManifestError", "UnfinishedManifestError"}

Caught(kind) == kind = "InvalidManifestError"

filepath == "manifest.json"


(***************************************************************************)
(* The parsed documents json.load can hand to the loader and factories.    *)
(* A top-level object has up to MaxKeys distinct keys, in file order; it   *)
(* is read one key/value pair at a time.                                   *)
(* Values are one representative of each class the code tells apart:       *)
(* nested mappings are drawn only under the keys whose value the code      *)
(* walks into ('chunks', 'files'), and at most one of the two is non-empty.*)
(***************************************************************************)
Keys == {"status", "chunks", "files", "app"}

Names == {"app", "lib"}

Paths == {"a.js", "b.css"}

NestedMaps(ItemVals) ==
    LET L == SeqsUpTo(ItemVals, MaxItems)
    IN  {<<>>}
        \cup {<<[name |-> n, items |-> x]>> : n \in Names, x \in L}
        \cup {<<[name |-> q[1], items |-> q[3]], [name |-> q[2], items |-> q[4]]>> :
                q \in {r \in Names \X Names \X L \X L :
                          r[1] # r[2] /\ Len(r[3]) + Len(r[4]) <= MaxItems}}

ChunkObjs == {Obj(m) : m \in NestedMaps({Desc(p) : p \in Paths} \cup {NoPublicPath})}

FileObjs == {Obj(m) : m \in NestedMaps({PathStr(p) : p \in Paths})}

ValsOf(key) ==
    CASE key = "status" -> {Str("done"), Str("built"), Str("initial"), Num}
      [] key = "chunks" -> {Str("a.js"), Null} \cup ChunkObjs
      [] key = "files" -> {Str("a.js"), Null} \cup FileObjs
      [] OTHER -> {Str("a.js"), Num}

NonEmptyObj(v) == v.t = "obj" /\ Len(v.m) > 0

\* a JSON document whose top level is a list, a string, a number or null
ScalarDocs == {[top |-> t, pairs |-> <<>>] : t \in {"list", "str", "num", "null"}}

EmptyObjectDoc == [top |-> "obj", pairs |-> <<>>]

Factories ==
    {"WebpackBundleTrackerFactory", "WebpackYamFactory", "WebpackManifestFactory"}

(***************************************************************************)
(* Spec: ManifestLoader.load, one step per probed factory.                 *)
(***************************************************************************)
otherInit ==
    /\ entries = <<>>
    /\ history = <<>>
    /\ lastOp = [op |-> "none", name |-> "", kind |-> "none",
                 entry |-> [name |-> "", paths |-> <<>>]]
    /\ epaths = <<>>
    /\ rendered = [kind |-> "none", text |-> <<>>, arg |-> <<>>]

Init ==
    /\ data \in {EmptyObjectDoc} \cup ScalarDocs
    /\ tried = <<>>
    /\ loaded = NoOutcome
    /\ results = [f \in Factories |-> NoOutcome]
    /\ otherInit

\* json.load(fp) decoding the next key/value pair of a top-level object
ReadPair ==
    /\ data.top = "obj"
    /\ Len(data.pairs) < MaxKeys
    /\ tried = <<>>
    /\ \A f \in Factories : results[f].kind = "none"
    /\ \E key \in Keys : \E val \in ValsOf(key) :
          /\ ~HasKey(data, key)
          /\ NonEmptyObj(val) => \A i \in 1..Len(data.pairs) : ~NonEmptyObj(data.pairs[i].val)
          /\ data' = [data EXCEPT !.pairs = Append(@, [key |-> key, val |-> val])]
    /\ UNCHANGED <<tried, loaded, results, entries, history, lastOp, epaths, rendered>>

\* one iteration of "for t in cls.types": try t.create(data)
Probe ==
    /\ loaded.kind = "none"
    /\ Len(tried) < Len(types)
    /\ LET t == types[Len(tried) + 1]
           r == Create(t, data)
       IN  /\ tried' = Append(tried, [factory |-> t, kind |-> r.kind])
           /\ loaded' = IF Caught(r.kind) THEN loaded ELSE r
    /\ UNCHANGED <<data, results, entries, history, lastOp, epaths, rendered>>

\* the loop ran out of factories
RaiseUnsupported ==
    /\ loaded.kind = "none"
    /\ Len(tried) = Len(types)
    /\ loaded' = Raised("UnsupportedManifestError", filepath)
    /\ UNCHANGED <<data, tried, results, entries, history, lastOp, epaths, rendered>>

Next == ReadPair \/ Probe \/ RaiseUnsupported

Spec == Init /\ [][Next]_vars

(***************************************************************************)
(* SpecCreate: each factory's create applied to the same document.         *)
(***************************************************************************)
CallCreate(t) ==
    /\ results[t].kind = "none"
    /\ results' = [results EXCEPT ![t] = Create(t, data)]
    /\ UNCHANGED <<data, tried, loaded, entries, history, lastOp, epaths, rendered>>

BundleTrackerCreate == CallCreate("WebpackBundleTrackerFactory")

YamCreate == CallCreate("WebpackYamFactory")

ManifestCreate == CallCreate("WebpackManifestFactory")

NextCreate == ReadPair \/ BundleTrackerCreate \/ YamCreate \/ ManifestCreate

SpecCreate == Init /\ [][NextCreate]_vars

(***************************************************************************)
(* The three manifest shapes, and what a document declares.                *)
(***************************************************************************)
KeySet(d) == {d.pairs[i].key : i \in 1..Len(d.pairs)}

AllStrings(d) == \A i \in 1..Len(d.pairs) : d.pairs[i].val.t = "str"

\* a mapping name -> list whose items are all of kind k
MappingOf(v, k) ==
    /\ v.t = "obj"
    /\ \A i \in 1..Len(v.m) : \A j \in 1..Len(v.m[i].items) : v.m[i].items[j].k = k

\* bundle-tracker: status 'done', chunks name -> list of descriptors with publicPath
BundleTrackerShaped(d) ==
    /\ d.top = "obj" /\ HasKey(d, "status") /\ HasKey(d, "chunks")
    /\ Get(d, "status") = Str("done")
    /\ MappingOf(Get(d, "chunks"), "desc")

\* yam: status 'built', files name -> list of paths
YamShaped(d) ==
    /\ d.top = "obj" /\ HasKey(d, "status") /\ HasKey(d, "files")
    /\ Get(d, "status") = Str("built")
    /\ MappingOf(Get(d, "files"), "str")

\* flat: name -> path string
FlatShaped(d) == d.top = "obj" /\ AllStrings(d)

\* the entries a nested mapping declares: one per name, its paths in list order
DeclaredIn(m) ==
    {[name |-> m[i].name,
      paths |-> [j \in 1..Len(m[i].items) |-> PathStr(m[i].items[j].p)]] :
        i \in 1..Len(m)}

\* the entries a flat mapping declares: one per key, its single path
DeclaredFlat(d) ==
    {[name |-> d.pairs[i].key, paths |-> <<PathStr(d.pairs[i].val.s)>>] :
        i \in 1..Len(d.pairs)}

\* outcome o is a returned Manifest holding exactly the entries of set E
IsManifestOf(o, E) ==
    /\ o.kind = "Manifest"
    /\ Range(o.manifest) = E
    /\ Len(o.manifest) = Cardinality(E)

LoadDone == loaded.kind # "none"

C2_ProbeOrder ==
    LET order == <<"WebpackBundleTrackerFactory", "WebpackYamFactory",
                   "WebpackManifestFactory">>
        n == Len(tried)
    IN  /\ n <= 3
        /\ \A i \in 1..n : tried[i].factory = order[i]
        /\ \A i \in 1..n : i < n => tried[i].kind = "InvalidManifestError"
        /\ (n > 0 /\ tried[n].kind # "InvalidManifestError")
              => /\ loaded.kind = tried[n].kind
                 /\ tried[n].kind = "Manifest" => loaded = Create(order[n], data)
        /\ (n > 0 /\ tried[n].kind = "InvalidManifestError")
              => loaded.kind \in {"none", "UnsupportedManifestError"}
        /\ loaded.kind = "UnsupportedManifestError" => n = 3
        /\ (LoadDone /\ loaded.kind # "UnsupportedManifestError")
              => (n > 0 /\ loaded.kind = tried[n].kind)

\* the yam factory raised UnfinishedManifestError after bundle-tracker raised
\* InvalidManifestError, and the flat factory was never asked
C2_Witness ==
    /\ Len(tried) = 2
    /\ tried[1].kind = "InvalidManifestError"
    /\ tried[2].kind = "UnfinishedManifestError"
    /\ loaded.kind = "UnfinishedManifestError"
    /\ FlatShaped(data)

\* d has neither the keys of the bundle-tracker or yam shape nor only strings
MatchesNoShape(d) ==
    /\ ~(d.top = "obj" /\ HasKey(d, "status") /\ HasKey(d, "chunks"))
    /\ ~(d.top = "obj" /\ HasKey(d, "status") /\ HasKey(d, "files"))
    /\ ~FlatShaped(d)

(***************************************************************************)
(* C3.  For every parsed JSON document that matches none of the three      *)
(* shapes, ManifestLoader.load fails with UnsupportedManifestError         *)
(* carrying the file path, and with nothing else.                          *)
(* Refuted: a document whose top level is not an object (a list, a string, *)
(* a number, null) makes the first factory raise TypeError.                *)
(***************************************************************************)
C3_UnsupportedWhenNoShape ==
    (LoadDone /\ MatchesNoShape(data))
        => loaded = Raised("UnsupportedManifestError", "manifest.json")

Succeeded(t) == results[t].kind = "Manifest"

(***************************************************************************)
(* C4.  Format detection is mutually exclusive: a bundle-tracker-shaped    *)
(* document never succeeds via the yam or flat factory, a yam-shaped one   *)
(* never via bundle-tracker or flat, a flat-shaped one never via           *)
(* bundle-tracker or yam; for any document at most one create returns a    *)
(* Manifest.                                                               *)
(***************************************************************************)
C4_DetectionExclusive ==
    /\ Cardinality({t \in Factories : Succeeded(t)}) <= 1
    /\ BundleTrackerShaped(data)
          => ~Succeeded("WebpackYamFactory") /\ ~Succeeded("WebpackManifestFactory")
    /\ YamShaped(data)
          => ~Succeeded("WebpackBundleTrackerFactory") /\ ~Succeeded("WebpackManifestFactory")
    /\ FlatShaped(data)
          => ~Succeeded("WebpackBundleTrackerFactory") /\ ~Succeeded("WebpackYamFactory")

\* a finished bundle-tracker document with an entry: all three factories were
\* asked and only bundle-tracker returned a Manifest
C4_Witness ==
    /\ \A t \in Factories : results[t].kind # "none"
    /\ BundleTrackerShaped(data)
    /\ Len(Get(data, "chunks").m) > 0
    /\ Succeeded("WebpackBundleTrackerFactory")
    /\ ~Succeeded("WebpackYamFactory") /\ ~Succeeded("WebpackManifestFactory")

YamResult == results["WebpackYamFactory"]

YamCalled == YamResult.kind # "none" /\ data.top = "obj"

YamKeysPresent == HasKey(data, "status") /\ HasKey(data, "files")

(***************************************************************************)
(* C5.  WebpackYamFactory.create: InvalidManifestError whenever 'status'   *)
(* or 'files' is missing; otherwise UnfinishedManifestError whenever       *)
(* 'files' is empty or null or status is not 'built'; a Manifest only when *)
(* both keys are present, 'files' is non-empty and status is 'built', with *)
(* one entry per name in files whose paths are the list files[name].       *)
(* Refuted: with status 'built' an empty 'files' mapping is not            *)
(* unfinished; create returns a Manifest with no entries.                  *)
(***************************************************************************)
C5_YamOutcomeOriginal ==
    YamCalled =>
        /\ ~YamKeysPresent => YamResult.kind = "InvalidManifestError"
        /\ (YamKeysPresent /\ (\/ Get(data, "files") = Obj(<<>>)
                               \/ Get(data, "files") = Null
                               \/ Get(data, "status") # Str("built")))
              => YamResult.kind = "UnfinishedManifestError"
        /\ YamResult.kind = "Manifest"
              => /\ YamKeysPresent
                 /\ Get(data, "status") = Str("built")
                 /\ Get(data, "files").t = "obj"
                 /\ Get(data, "files") # Obj(<<>>)
                 /\ IsManifestOf(YamResult, DeclaredIn(Get(data, "files").m))

(***************************************************************************)
(* C5, amended.  For a mapping data: InvalidManifestError whenever         *)
(* 'status' or 'files' is missing; otherwise UnfinishedManifestError       *)
(* whenever 'files' is null or status is not 'built'; a Manifest only when *)
(* both keys are present, 'files' is not null and status is 'built', and   *)
(* then, 'files' being a mapping (empty or not), with one entry per name   *)
(* in files whose paths are the list files[name].                          *)
(***************************************************************************)
C5_YamOutcome ==
    YamCalled =>
        /\ ~YamKeysPresent => YamResult.kind = "InvalidManifestError"
        /\ (YamKeysPresent /\ (\/ Get(data, "files") = Null
                               \/ Get(data, "status") # Str("built")))
              => YamResult.kind = "UnfinishedManifestError"
        /\ (YamKeysPresent /\ Get(data, "status") = Str("built")
                /\ Get(data, "files").t = "obj")
              => IsManifestOf(YamResult, DeclaredIn(Get(data, "files").m))
        /\ YamResult.kind = "Manifest"
              => /\ YamKeysPresent
                 /\ Get(data, "status") = Str("built")
                 /\ Get(data, "files") # Null

\* status 'built' with an empty files mapping: an empty Manifest is returned
C5_Witness ==
    /\ YamCalled /\ YamKeysPresent
    /\ Get(data, "status") = Str("built")
    /\ Get(data, "files") = Obj(<<>>)
    /\ YamResult = Returned(<<>>)

BundleResult == results["WebpackBundleTrackerFactory"]

BundleCalled == BundleResult.kind # "none" /\ data.top = "obj"

BundleKeysPresent == HasKey(data, "status") /\ HasKey(data, "chunks")

(***************************************************************************)
(* C6.  WebpackBundleTrackerFactory.create: InvalidManifestError whenever  *)
(* 'status' or 'chunks' is missing, even when the status present is not    *)
(* 'done'; otherwise UnfinishedManifestError whenever status is not 'done' *)
(* (also with empty chunks); otherwise a Manifest with exactly one entry   *)
(* per chunk name whose paths are the publicPath fields of that chunk's    *)
(* descriptors in list order.                                              *)
(***************************************************************************)
C6_BundleOutcome ==
    BundleCalled =>
        /\ ~BundleKeysPresent => BundleResult.kind = "InvalidManifestError"
        /\ (BundleKeysPresent /\ Get(data, "status") # Str("done"))
              => BundleResult.kind = "UnfinishedManifestError"
        /\ (BundleKeysPresent /\ Get(data, "status") = Str("done")
                /\ MappingOf(Get(data, "chunks"), "desc"))
              => IsManifestOf(BundleResult, DeclaredIn(Get(data, "chunks").m))
        /\ BundleResult.kind = "Manifest" => BundleTrackerShaped(data)

\* a status that is not 'done' and no chunks key: InvalidManifestError
C6_Witness ==
    /\ BundleCalled
    /\ HasKey(data, "status") /\ Get(data, "status") = Str("initial")
    /\ ~HasKey(data, "chunks")
    /\ BundleResult.kind = "InvalidManifestError"

FlatResult == results["WebpackManifestFactory"]

FlatCalled == FlatResult.kind # "none" /\ data.top = "obj"

(***************************************************************************)
(* C7.  WebpackManifestFactory.create on a flat mapping raises             *)
(* InvalidManifestError if and only if at least one value is not a string, *)
(* wherever it sits; when every value is a string it returns a Manifest    *)
(* with exactly one entry per key whose paths is the one-element list of   *)
(* that key's value.                                                       *)
(***************************************************************************)
C7_FlatOutcome ==
    FlatCalled =>
        /\ FlatResult.kind = "InvalidManifestError" <=> ~AllStrings(data)
        /\ AllStrings(data) => IsManifestOf(FlatResult, DeclaredFlat(data))

\* the only non-string value comes last, after two strings
C7_Witness ==
    /\ FlatCalled
    /\ Len(data.pairs) = 3
    /\ data.pairs[1].val.t = "str" /\ data.pairs[2].val.t = "str"
    /\ data.pairs[3].val.t # "str"
    /\ FlatResult.kind = "InvalidManifestError"

(***************************************************************************)
(* SpecManifest: Manifest.add, Manifest.__getitem__, Manifest.__getattr__  *)
(* on one Manifest.                                                        *)
(***************************************************************************)
\* names Python's ordinary attribute lookup finds on a Manifest instance;
\* __getattr__ is only called for names it does not find
ManifestAttributes == {"_entries", "add", "__init__", "__getitem__", "__getattr__"}

EntryNames == {"app", "lib", "add"}

EntryPaths == {<<PathStr(p)>> : p \in Paths}

NoEntry == create_entry("", <<>>)

loaderIdle ==
    /\ data = EmptyObjectDoc
    /\ tried = <<>>
    /\ loaded = NoOutcome
    /\ results = [f \in Factories |-> NoOutcome]

InitManifest == loaderIdle /\ otherInit

\* manifest.add(entry)
ManifestAdd ==
    /\ Len(history) < MaxAdds
    /\ \E name \in EntryNames, paths \in EntryPaths :
          LET entry == create_entry(name, paths)
              r == add(entries, entry)
          IN  /\ entries' = r.es
              /\ history' = Append(history, entry)
              /\ lastOp' = [op |-> "add", name |-> name,
                            kind |-> IF r.ok THEN "ok" ELSE "KeyError",
                            entry |-> entry]
    /\ UNCHANGED <<data, tried, loaded, results, epaths, rendered>>

\* manifest[key]
getitem(es, key) ==
    IF HasEntry(es, key)
    THEN [kind |-> "ok", entry |-> EntryOf(es, key)]
    ELSE [kind |-> "KeyError", entry |-> NoEntry]

\* manifest.<name>: ordinary lookup first, then __getattr__
getattr(es, name) ==
    IF name \in ManifestAttributes
    THEN [kind |-> "attribute", entry |-> NoEntry]
    ELSE IF getitem(es, name).kind = "KeyError"
         THEN [kind |-> "AttributeError", entry |-> NoEntry]
         ELSE getitem(es, name)

ManifestGetitem ==
    /\ \E key \in EntryNames :
          LET r == getitem(entries, key)
          IN  lastOp' = [op |-> "getitem", name |-> key, kind |-> r.kind,
                         entry |-> r.entry]
    /\ UNCHANGED <<data, tried, loaded, results, entries, history, epaths, rendered>>

ManifestGetattr ==
    /\ \E name \in EntryNames :
          LET r == getattr(entries, name)
          IN  lastOp' = [op |-> "getattr", name |-> name, kind |-> r.kind,
                         entry |-> r.entry]
    /\ UNCHANGED <<data, tried, loaded, results, entries, history, epaths, rendered>>

NextManifest == ManifestAdd \/ ManifestGetitem \/ ManifestGetattr

SpecManifest == InitManifest /\ [][NextManifest]_vars

\* the first entry handed to add under name n
FirstAdded(n) ==
    history[CHOOSE i \in 1..Len(history) :
                /\ history[i].name = n
                /\ \A j \in 1..(i - 1) : history[j].name # n]

(***************************************************************************)
(* C8.  After any sequence of Manifest.add calls every name maps to the    *)
(* first entry added under it: an add of a name already present raises     *)
(* KeyError and leaves the mapping unchanged, an add of a new name inserts *)
(* exactly that entry and changes no other.                                *)
(***************************************************************************)
C8_FirstAddWins ==
    /\ {entries[i].name : i \in 1..Len(entries)}
          = {history[i].name : i \in 1..Len(history)}
    /\ \A i, j \in 1..Len(entries) : entries[i].name = entries[j].name => i = j
    /\ \A i \in 1..Len(entries) : entries[i] = FirstAdded(entries[i].name)
    /\ lastOp.op = "add"
          => LET n == Len(history)
                 dup == \E j \in 1..(n - 1) : history[j].name = history[n].name
             IN  /\ lastOp.entry = history[n]
                 /\ lastOp.kind = IF dup THEN "KeyError" ELSE "ok"

\* a second add under a stored name, with other paths, raised KeyError
C8_Witness ==
    /\ lastOp.op = "add" /\ lastOp.kind = "KeyError"
    /\ HasEntry(entries, lastOp.name)
    /\ EntryOf(entries, lastOp.name) # lastOp.entry

(***************************************************************************)
(* C9.  For every stored entry, whatever its name, manifest[name] and      *)
(* manifest.<name> both return that entry; attribute lookup of a name that *)
(* is not stored raises AttributeError.                                    *)
(* Refuted: for an entry named like an attribute the Manifest object       *)
(* already has ('add'), manifest.add is the bound method, stored or not.   *)
(***************************************************************************)
C9_LookupReturnsStored ==
    lastOp.op \in {"getitem", "getattr"} =>
        IF HasEntry(entries, lastOp.name)
        THEN lastOp.kind = "ok" /\ lastOp.entry = EntryOf(entries, lastOp.name)
        ELSE lastOp.op = "getattr" => lastOp.kind = "AttributeError"

(***************************************************************************)
(* SpecRender: ManifestEntry.render.  A path is a sequence of tokens: "."  *)
(* and "/" stand for themselves, every other token is a run of letters.    *)
(***************************************************************************)
\* p.rfind(c), 1-based; 0 when c does not occur
rfind(p, c) ==
    IF \E i \in 1..Len(p) : p[i] = c
    THEN CHOOSE i \in 1..Len(p) : p[i] = c /\ \A j \in (i + 1)..Len(p) : p[j] # c
    ELSE 0

\* the "skip all leading dots" loop of splitext
RECURSIVE SkipLeadingDots(_, _, _)
SkipLeadingDots(p, filenameIndex, dotIndex) ==
    IF filenameIndex < dotIndex
    THEN IF p[filenameIndex] # "."
         THEN [root |-> SubSeq(p, 1, dotIndex - 1), ext |-> SubSeq(p, dotIndex, Len(p))]
         ELSE SkipLeadingDots(p, filenameIndex + 1, dotIndex)
    ELSE [root |-> p, ext |-> <<>>]

\* os.path.splitext(p)
splitext(p) ==
    LET sepIndex == rfind(p, "/")
        dotIndex == rfind(p, ".")
    IN  IF dotIndex > sepIndex
        THEN SkipLeadingDots(p, sepIndex + 1, dotIndex)
        ELSE [root |-> p, ext |-> <<>>]

\* str.lower() on one token
LowerMissing(tok) == tok

LowerToken(tok) ==
    CASE tok = "JS" -> "js"
      [] tok = "Js" -> "js"
      [] tok = "CSS" -> "css"
      [] tok = "PNG" -> "png"
      [] OTHER -> tok

lower(ext) == [i \in 1..Len(ext) |-> LowerToken(ext[i])]

\* ManifestEntry.templates.get(ext): the text before and after the "{}"
templates(ext) ==
    IF ext = <<".", "js">>
    THEN [found |-> TRUE, pre |-> "<script src=\"", post |-> "\"></script>"]
    ELSE IF ext = <<".", "css">>
         THEN [found |-> TRUE, pre |-> "<link rel=\"stylesheet\" href=\"",
               post |-> "\"></link>"]
         ELSE [found |-> FALSE, pre |-> "", post |-> ""]

\* ''.join(out)
RECURSIVE join(_)
join(out) == IF Len(out) = 0 THEN <<>> ELSE Head(out) \o join(Tail(out))

\* the loop of ManifestEntry.render from path i
RECURSIVE RenderLoop(_, _, _)
RenderLoop(paths, i, out) ==
    IF i > Len(paths) THEN [kind |-> "str", text |-> join(out), arg |-> <<>>]
    ELSE LET p == paths[i]
             tpl == templates(lower(splitext(p).ext))
         IN  IF ~tpl.found
             THEN [kind |-> "UnsupportedExtensionError", text |-> <<>>, arg |-> p]
             ELSE RenderLoop(paths, i + 1, Append(out, <<tpl.pre>> \o p \o <<tpl.post>>))

render(paths) == RenderLoop(paths, 1, <<>>)

RenderPaths ==
    { <<"x", ".", "js">>, <<"x", ".", "JS">>, <<"x", ".", "css">>,
      <<"x", ".", "CSS">>, <<"x", ".", "png">>, <<"x">>, <<>>,
      <<".", "js">>, <<".", ".", "css">>, <<"x", ".", "js", "/", "x">>,
      <<"x", "/", ".", "js">>, <<"x", "/", "x", ".", "css">>,
      <<"x", ".", "x", ".", "Js">>, <<"x", ".", "js", ".">> }

InitRender ==
    /\ loaderIdle
    /\ entries = <<>>
    /\ history = <<>>
    /\ lastOp = [op |-> "none", name |-> "", kind |-> "none", entry |-> NoEntry]
    /\ epaths \in SeqsUpTo(RenderPaths, MaxPaths)
    /\ rendered = [kind |-> "none", text |-> <<>>, arg |-> <<>>]

\* entry.render()
Render ==
    /\ rendered' = render(epaths)
    /\ UNCHANGED <<data, tried, loaded, results, entries, history, lastOp, epaths>>

\* str(entry)
StrEntry ==
    /\ rendered' = render(epaths)
    /\ UNCHANGED <<data, tried, loaded, results, entries, history, lastOp, epaths>>

NextRender == Render \/ StrEntry

SpecRender == InitRender /\ [][NextRender]_vars

\* p ends in a dot and the letters e (in any case), and that dot follows a
\* character of the file name that is not itself a dot
HasExtension(p, spellings) ==
    LET n == Len(p)
    IN  /\ n >= 3
        /\ p[n] \in spellings
        /\ p[n - 1] = "."
        /\ \E j \in 1..(n - 2) :
              /\ p[j] # "."
              /\ \A k \in j..(n - 2) : p[k] # "/"

IsJs(p) == HasExtension(p, {"js", "JS", "Js", "jS"})

IsCss(p) == HasExtension(p, {"css", "CSS", "Css"})

TagOf(p) ==
    IF IsJs(p) THEN <<"<script src=\"">> \o p \o <<"\"></script>">>
    ELSE <<"<link rel=\"stylesheet\" href=\"">> \o p \o <<"\"></link>">>

RECURSIVE TagsFrom(_, _)
TagsFrom(paths, i) ==
    IF i > Len(paths) THEN <<>> ELSE TagOf(paths[i]) \o TagsFrom(paths, i + 1)

\* what one call of render must have produced for the paths of the entry
RenderedAsClaimed ==
    rendered.kind # "none" =>
        LET bad == {i \in 1..Len(epaths) : ~IsJs(epaths[i]) /\ ~IsCss(epaths[i])}
        IN  IF bad = {}
            THEN rendered = [kind |-> "str", text |-> TagsFrom(epaths, 1), arg |-> <<>>]
            ELSE LET first == CHOOSE i \in bad : \A j \in bad : i <= j
                 IN  rendered = [kind |-> "UnsupportedExtensionError",
                                 text |-> <<>>, arg |-> epaths[first]]

(***************************************************************************)
(* C10.  render() returns the concatenation, in path order and with no     *)
(* separator, of the script tag of every .js path and the stylesheet link  *)
(* tag of every .css path (extension matched case-insensitively, the raw   *)
(* path inserted); if some path has another extension it raises            *)
(* UnsupportedExtensionError carrying the first such path and produces no  *)
(* output; render does not modify the entry, so repeated calls agree.      *)
(***************************************************************************)
C10_Render == [](RenderedAsClaimed) /\ [][epaths' = epaths]_vars

\* two paths, the first with an upper-case extension, rendered to two tags
C10_Witness ==
    /\ epaths = << <<"x", ".", "JS">>, <<"x", ".", "css">> >>
    /\ rendered.kind = "str"
    /\ rendered.text = <<"<script src=\"", "x", ".", "JS", "\"></script>",
                         "<link rel=\"stylesheet\" href=\"", "x", ".", "css",
                         "\"></link>">>

=============================================================================
